---- MODULE Spec2Model ----
(***************************************************************************)
(* Model of the fleman subtitle pipeline:                                  *)
(*   translate/api.py        translate_text                                *)
(*   subtitles/generator.py  create_subtitles, split_into_sentences,       *)
(*                           create_subtitle_chunks, sanitize_filename     *)
(*   encode/subtitle.py      embed_subtitles (argument construction)       *)
(*   utils/media.py          extract_audio (argument construction)         *)
(*   cli.py                  process (the orchestrator)                    *)
(*                                                                         *)
(* Text is a sequence of one-character strings.  The pure functions are    *)
(* operators; each has a specification whose Init draws the inputs from    *)
(* bounded sets and whose action applies the function.  The orchestrator   *)
(* is a state machine over its program counter.                            *)
(***************************************************************************)
EXTENDS Integers, Sequences, FiniteSets, TLC

VARIABLES
    chk,    \* create_subtitle_chunks: [phase, sentences, max_chars_per_line, chunks]
    tr,     \* translate_text: [phase, transcript, target_language, api_key, env_key, r1, r2, result, heap, ret]
    sub,    \* create_subtitles: [phase, transcript, output_file, original_transcript, max_chars_per_line, style, save_ok, result]
    aud,    \* extract_audio: [phase, duration, max_size, small, sample_rate, channels, bit_depth, format, cmd]
    enc,    \* embed_subtitles: [phase, a (the arguments), env, result]
    pc,               \* process: position in the function body
    opts,             \* process: command-line options and environment
    extracted_audio,  \* process: local extracted_audio ("none", "tmp", "sibling")
    tempExists,       \* process: the NamedTemporaryFile is on disk
    tempCreated,      \* process: a NamedTemporaryFile was created in this run
    transcript,       \* process: local transcript
    original_transcript, \* process: local original_transcript
    transcribed,      \* process: the record transcribe_audio returned
    invoked,          \* process: stages invoked so far, in order, with outcome
    subsCall,         \* process: arguments and result of the create_subtitles call
    trCall,           \* process: arguments and result of the translate_text call
    encCall,          \* process: arguments and outcome of the embed_subtitles call
    exitCode          \* process: -1 while running, else the exit status

vars == <<chk, tr, sub, aud, enc, pc, opts, extracted_audio, tempExists, tempCreated,
          transcript, original_transcript, transcribed, invoked, subsCall, trCall,
          encCall, exitCode>>

pureVars == <<chk, tr, sub, aud, enc>>

procVars == <<pc, opts, extracted_audio, tempExists, tempCreated, transcript,
              original_transcript, transcribed, invoked, subsCall, trCall, encCall,
              exitCode>>

None == "None"

\* The state of a component that takes no part in the specification at hand.
Idle == [phase |-> "idle"]

(***************************************************************************)
(* Bounds                                                                  *)
(***************************************************************************)
MaxSentLen == 6      \* longest sentence handed to create_subtitle_chunks
MaxSentences == 2    \* longest sentence list
MaxLineChars == 3    \* largest max_chars_per_line

(***************************************************************************)
(* Text helpers                                                            *)
(***************************************************************************)
SeqsUpTo(S, n) == UNION {[1..k -> S] : k \in 0..n}

Max(a, b) == IF a >= b THEN a ELSE b

Whitespace == {" ", "\t"}
IsSpace(c) == c \in Whitespace

\* str.strip()
RECURSIVE LStrip(_)
LStrip(s) == IF s # <<>> /\ IsSpace(Head(s)) THEN LStrip(Tail(s)) ELSE s

RECURSIVE RStrip(_)
RStrip(s) ==
    IF s # <<>> /\ IsSpace(s[Len(s)]) THEN RStrip(SubSeq(s, 1, Len(s) - 1)) ELSE s

Strip(s) == RStrip(LStrip(s))

\* str.split(): the maximal runs of non-whitespace characters, in order
RECURSIVE SplitWords(_, _, _)
SplitWords(s, cur, acc) ==
    IF s = <<>> THEN (IF cur = <<>> THEN acc ELSE Append(acc, cur))
    ELSE IF IsSpace(Head(s))
         THEN SplitWords(Tail(s), <<>>, IF cur = <<>> THEN acc ELSE Append(acc, cur))
         ELSE SplitWords(Tail(s), Append(cur, Head(s)), acc)

Words(s) == SplitWords(s, <<>>, <<>>)

\* The line-break marker "\\N" (two characters) and the " | " separator
LineBreak == <<"\\", "N">>
Separator == <<" ", "|", " ">>

(***************************************************************************)
(* create_subtitle_chunks  (subtitles/generator.py 289-357)                *)
(***************************************************************************)
\* Lines 313-323 and 329-339: move current_line into current_chunk, starting
\* a new chunk when the joined text would exceed 2 * max_chars_per_line.
PlaceLine(st, max_chars_per_line) ==
    IF st.current_chunk # <<>>
    THEN IF Len(st.current_chunk \o LineBreak \o st.current_line) <= max_chars_per_line * 2
         THEN [st EXCEPT !.current_chunk = @ \o LineBreak \o st.current_line]
         ELSE [st EXCEPT !.chunks = Append(@, st.current_chunk),
                         !.current_chunk = st.current_line]
    ELSE [st EXCEPT !.current_chunk = st.current_line]

\* Lines 309-325: one iteration of the loop over the words of a long sentence.
WordStep(st, word, max_chars_per_line) ==
    IF Len(st.current_line) + Len(word) + 1 <= max_chars_per_line
    THEN [st EXCEPT !.current_line =
                      IF @ # <<>> THEN @ \o <<" ">> \o word ELSE word]
    ELSE [PlaceLine(st, max_chars_per_line) EXCEPT !.current_line = word]

RECURSIVE WordLoop(_, _, _)
WordLoop(st, words, max_chars_per_line) ==
    IF words = <<>> THEN st
    ELSE WordLoop(WordStep(st, Head(words), max_chars_per_line), Tail(words),
                  max_chars_per_line)

\* Lines 305-339: a sentence longer than 2 * max_chars_per_line is word-wrapped.
LongSentence(st, sentence, max_chars_per_line) ==
    LET after == WordLoop([st EXCEPT !.current_line = <<>>], Words(sentence),
                          max_chars_per_line)
    IN  IF after.current_line # <<>> THEN PlaceLine(after, max_chars_per_line)
        ELSE after

\* Lines 340-351: a shorter sentence is appended whole, or starts a new chunk.
ShortSentence(st, sentence, max_chars_per_line) ==
    IF st.current_chunk # <<>>
    THEN IF Len(st.current_chunk) + Len(sentence) + 4 <= max_chars_per_line * 2
         THEN [st EXCEPT !.current_chunk = @ \o Separator \o sentence]
         ELSE [st EXCEPT !.chunks = Append(@, st.current_chunk),
                         !.current_chunk = sentence]
    ELSE [st EXCEPT !.current_chunk = sentence]

SentenceStep(st, sentence, max_chars_per_line) ==
    IF Len(sentence) > max_chars_per_line * 2
    THEN LongSentence(st, sentence, max_chars_per_line)
    ELSE ShortSentence(st, sentence, max_chars_per_line)

RECURSIVE SentenceLoop(_, _, _)
SentenceLoop(st, sentences, max_chars_per_line) ==
    IF sentences = <<>> THEN st
    ELSE SentenceLoop(SentenceStep(st, Head(sentences), max_chars_per_line),
                      Tail(sentences), max_chars_per_line)

create_subtitle_chunks(sentences, max_chars_per_line) ==
    LET st == SentenceLoop([chunks |-> <<>>, current_chunk |-> <<>>,
                            current_line |-> <<>>], sentences, max_chars_per_line)
    IN  IF st.current_chunk # <<>> THEN Append(st.chunks, st.current_chunk)
        ELSE st.chunks

\* The lines of a chunk: the parts separated by the line-break marker.
RECURSIVE SplitLines(_, _, _)
SplitLines(s, cur, acc) ==
    IF s = <<>> THEN Append(acc, cur)
    ELSE IF Len(s) >= 2 /\ SubSeq(s, 1, 2) = LineBreak
         THEN SplitLines(SubSeq(s, 3, Len(s)), <<>>, Append(acc, cur))
         ELSE SplitLines(Tail(s), Append(cur, Head(s)), acc)

LinesOf(chunk) == SplitLines(chunk, <<>>, <<>>)

\* Sentences as split_into_sentences returns them: stripped and non-empty.
SentenceChars == {"a", " "}
Sentences ==
    {s \in SeqsUpTo(SentenceChars, MaxSentLen) : s # <<>> /\ Strip(s) = s}

ChunkInit ==
    /\ chk \in [phase : {"input"},
                sentences : SeqsUpTo(Sentences, MaxSentences),
                max_chars_per_line : 1..MaxLineChars,
                chunks : {<<>>}]

ChunkCall ==
    /\ chk.phase = "input"
    /\ chk' = [chk EXCEPT !.phase = "returned",
                          !.chunks = create_subtitle_chunks(chk.sentences,
                                                            chk.max_chars_per_line)]
    /\ UNCHANGED <<tr, sub, aud, enc, procVars>>

(***************************************************************************)
(* Transcript records  (transcribe/groq.py 92-109)                         *)
(***************************************************************************)
\* Segment times are counted in ticks of 1/2000 s, so that the conversion to
\* milliseconds truncates as int(seconds * 1000) does.
Segment(start, end, text) == [start |-> start, end |-> end, text |-> text]

Transcript(text, segments, language) ==
    [text |-> text, segments |-> segments, language |-> language]

\* str.upper() / str.lower() on the language codes and container names of
\* the model
Upper(code) ==
    CASE code \in {"en", "EN"} -> "EN"
      [] code \in {"zh", "ZH"} -> "ZH"
      [] code \in {"mkv", "MKV"} -> "MKV"
      [] code \in {"mp4", "MP4"} -> "MP4"
      [] code \in {"webm", "WEBM"} -> "WEBM"
Lower(code) ==
    CASE code \in {"en", "EN"} -> "en"
      [] code \in {"zh", "ZH"} -> "zh"
      [] code \in {"mkv", "MKV"} -> "mkv"
      [] code \in {"mp4", "MP4"} -> "mp4"
      [] code \in {"webm", "WEBM"} -> "webm"
      [] code \in {"avi", "AVI"} -> "avi"
      [] code \in {".ass", ".ASS"} -> ".ass"
      [] code \in {".srt", ".SRT"} -> ".srt"
      [] code \in {".mkv", ".MKV"} -> ".mkv"
      [] code \in {".mp4", ".MP4"} -> ".mp4"
      [] code \in {".webm", ".WEBM"} -> ".webm"
      [] code \in {"tc", "TC"} -> "tc"
      [] code \in {"xx", "XX"} -> "xx"

(***************************************************************************)
(* translate_text  (translate/api.py 13-123)                               *)
(*                                                                         *)
(* r1 and r2 are what the remote endpoint answers to the first and to the  *)
(* second request: kind "error" (requests raises), "malformed" (a JSON     *)
(* body without "translations"), or "ok" with the translated texts.        *)
(***************************************************************************)
MaxTrSegs == 4       \* most segments of a transcript handed to translate_text

NoTranscript == [none |-> TRUE]

TranslationError(requests) ==
    [ok |-> FALSE, value |-> NoTranscript, requests |-> requests]

Payload(texts, target_lang) == [text |-> texts, target_lang |-> target_lang]

\* Variant: every segment text is submitted, the empty ones too
segment_texts_All(segments) == [i \in 1..Len(segments) |-> segments[i].text]

\* Line 80-82: the texts of the segments whose text is non-empty
RECURSIVE segment_texts(_)
segment_texts(segments) ==
    IF segments = <<>> THEN <<>>
    ELSE IF Head(segments).text # <<>>
         THEN <<Head(segments).text>> \o segment_texts(Tail(segments))
         ELSE segment_texts(Tail(segments))

\* Lines 100-113: the k-th non-empty segment takes the k-th translation
RECURSIVE translated_segments(_, _, _)
translated_segments(segments, translations, text_index) ==
    IF segments = <<>> THEN <<>>
    ELSE IF Head(segments).text # <<>>
         THEN <<[Head(segments) EXCEPT !.text = translations[text_index]]>>
              \o translated_segments(Tail(segments), translations, text_index + 1)
         ELSE <<Head(segments)>>
              \o translated_segments(Tail(segments), translations, text_index)

\* Lines 76-118 when the translation count differs from the submitted count:
\* the branch at line 96 is skipped and the segments stay as they were.
SegmentsOnMismatch(segments) == segments

\* Lines 76-118: the second request and the reassembly of the segments
translate_segments(translated, segments, deepl_target_lang, r2, requests) ==
    IF segments = <<>> \/ segment_texts(segments) = <<>>
    THEN [ok |-> TRUE, value |-> translated, requests |-> requests]
    ELSE LET sent == Append(requests, Payload(segment_texts(segments), deepl_target_lang))
         IN  IF r2.kind = "error" THEN TranslationError(sent)
             ELSE IF r2.kind = "ok"
                     /\ Len(r2.translations) = Len(segment_texts(segments))
                  THEN [ok |-> TRUE,
                        value |-> [translated EXCEPT !.segments =
                                     translated_segments(segments, r2.translations, 1)],
                        requests |-> sent]
                  ELSE [ok |-> TRUE,
                        value |-> [translated EXCEPT !.segments =
                                     SegmentsOnMismatch(segments)],
                        requests |-> sent]

translate_text(trans, target_language, api_key, env_key, r1, r2) ==
    LET deepl_api_key == IF api_key # "" THEN api_key ELSE env_key
        deepl_target_lang == Upper(target_language)
        first == <<Payload(<<trans.text>>, deepl_target_lang)>>
    IN  IF deepl_api_key = "" THEN TranslationError(<<>>)
        ELSE IF trans.text = <<>> THEN TranslationError(<<>>)
        ELSE IF r1.kind \in {"error", "malformed"} THEN TranslationError(first)
        ELSE IF Len(r1.translations) = 0 THEN TranslationError(first)
        ELSE translate_segments([trans EXCEPT !.text = r1.translations[1],
                                              !.language = target_language],
                                trans.segments, deepl_target_lang, r2, first)

(***************************************************************************)
(* translate_text on objects.  The dictionaries and lists of the call live *)
(* in a heap, a sequence indexed by address: a transcript dictionary holds *)
(* the address of its segment list, the list the addresses of the segment  *)
(* dictionaries.  dict.copy() allocates a new dictionary with the same     *)
(* entries (a shallow copy); an item assignment writes at an address.      *)
(***************************************************************************)
Alloc(heap, obj) == [heap |-> Append(heap, obj), addr |-> Len(heap) + 1]

\* The heap of the caller: the segment dictionaries, their list, the transcript
Store(trans) ==
    LET n == Len(trans.segments)
    IN  [a \in 1..(n + 2) |->
            IF a <= n THEN trans.segments[a]
            ELSE IF a = n + 1 THEN [items |-> [k \in 1..n |-> k]]
            ELSE [text |-> trans.text, language |-> trans.language,
                  segments |-> n + 1]]
InputAddr(trans) == Len(trans.segments) + 2

\* The transcript value read through address a
Deref(heap, a) ==
    LET items == heap[heap[a].segments].items
    IN  [text |-> heap[a].text,
         segments |-> [k \in 1..Len(items) |-> heap[items[k]]],
         language |-> heap[a].language]

\* Variant: the "copy" is the dictionary itself
DictCopy_Alias(heap, a) == [heap |-> heap, addr |-> a]

\* Lines 54, 105, 113: dict.copy()
DictCopy(heap, a) == Alloc(heap, heap[a])

\* Lines 100-113: each segment is copied; a copy with text takes its translation
RECURSIVE CopySegments(_, _, _, _, _, _)
CopySegments(heap, items, k, translations, text_index, translated) ==
    IF k > Len(items) THEN [heap |-> heap, items |-> translated]
    ELSE IF heap[items[k]].text # <<>>
         THEN LET c == DictCopy(heap, items[k])
              IN  CopySegments([c.heap EXCEPT ![c.addr].text = translations[text_index]],
                               items, k + 1, translations, text_index + 1,
                               Append(translated, c.addr))
         ELSE LET c == DictCopy(heap, items[k])
              IN  CopySegments(c.heap, items, k + 1, translations, text_index,
                               Append(translated, c.addr))

\* The texts of the segment dictionaries that have one (lines 80-82)
HeapTexts(heap, items) ==
    LET texts == [k \in 1..Len(items) |-> heap[items[k]].text]
    IN  SelectSeq(texts, LAMBDA t : t # <<>>)

\* Lines 27-123 on the heap: ret is the address returned, 0 when the call raises
translate_text_on_heap(heap, t, target_language, api_key, env_key, r1, r2) ==
    LET deepl_api_key == IF api_key # "" THEN api_key ELSE env_key
        raised(h) == [heap |-> h, ret |-> 0]
    IN  IF deepl_api_key = "" \/ heap[t].text = <<>> THEN raised(heap)
        ELSE LET c == DictCopy(heap, t)
             IN  IF r1.kind \in {"error", "malformed"} \/ Len(r1.translations) = 0
                 THEN raised(c.heap)
                 ELSE LET h1 == [c.heap EXCEPT ![c.addr].text = r1.translations[1],
                                               ![c.addr].language = target_language]
                          items == h1[h1[t].segments].items
                          texts == HeapTexts(h1, items)
                      IN  IF texts = <<>> THEN [heap |-> h1, ret |-> c.addr]
                          ELSE IF r2.kind = "error" THEN raised(h1)
                          ELSE IF r2.kind = "ok" /\ Len(r2.translations) = Len(texts)
                          THEN LET s == CopySegments(h1, items, 1, r2.translations,
                                                     1, <<>>)
                                   l == Alloc(s.heap, [items |-> s.items])
                               IN  [heap |-> [l.heap EXCEPT ![c.addr].segments = l.addr],
                                    ret |-> c.addr]
                          ELSE [heap |-> h1, ret |-> c.addr]

\* The k-th text a remote answer carries: k copies of "x" (distinct per index)
Tr(k) == [i \in 1..k |-> "x"]
Answer(n) == [kind |-> "ok", translations |-> [k \in 1..n |-> Tr(k)]]
Answers(n) ==
    {[kind |-> "error", translations |-> <<>>],
     [kind |-> "malformed", translations |-> <<>>]} \cup {Answer(k) : k \in 0..n}

\* Segment texts: empty, whitespace only (non-empty for Python), a letter
SegTexts == {<<>>, <<" ">>, <<"a">>}

\* Segments whose timing is set by their position
TimedSegs(texts) == [i \in 1..Len(texts) |-> Segment(2 * (i - 1), 2 * i, texts[i])]

TrTranscripts ==
    {Transcript(t, TimedSegs(texts), None) :
        t \in {<<>>, <<"a">>}, texts \in SeqsUpTo(SegTexts, MaxTrSegs)}

TrInit ==
    /\ tr \in [phase : {"input"},
               transcript : TrTranscripts,
               target_language : {"zh"},
               api_key : {"", "k"},
               env_key : {"", "e"},
               r1 : Answers(1),
               r2 : Answers(MaxTrSegs + 1),
               result : {TranslationError(<<>>)},
               heap : {<<>>},
               ret : {0}]

TrCall ==
    /\ tr.phase = "input"
    /\ LET on_heap == translate_text_on_heap(Store(tr.transcript),
                           InputAddr(tr.transcript), tr.target_language,
                           tr.api_key, tr.env_key, tr.r1, tr.r2)
       IN  tr' = [tr EXCEPT !.phase = "returned",
                            !.result = translate_text(tr.transcript, tr.target_language,
                                                      tr.api_key, tr.env_key, tr.r1, tr.r2),
                            !.heap = on_heap.heap,
                            !.ret = on_heap.ret]
    /\ UNCHANGED <<chk, sub, aud, enc, procVars>>

(***************************************************************************)
(* split_into_sentences  (subtitles/generator.py 270-286)                  *)
(***************************************************************************)
SentenceEnd == {".", "!", "?"}

\* re.split(r"(?<=[.!?])\s+", text): cut at each whitespace run that directly
\* follows a sentence-ending mark
RECURSIVE SplitAtSentenceEnd(_, _, _)
SplitAtSentenceEnd(s, cur, acc) ==
    IF s = <<>> THEN Append(acc, cur)
    ELSE IF IsSpace(Head(s)) /\ cur # <<>> /\ cur[Len(cur)] \in SentenceEnd
         THEN SplitAtSentenceEnd(LStrip(s), <<>>, Append(acc, cur))
         ELSE SplitAtSentenceEnd(Tail(s), Append(cur, Head(s)), acc)

RECURSIVE StripNonEmpty(_)
StripNonEmpty(parts) ==
    IF parts = <<>> THEN <<>>
    ELSE IF Strip(Head(parts)) # <<>>
         THEN <<Strip(Head(parts))>> \o StripNonEmpty(Tail(parts))
         ELSE StripNonEmpty(Tail(parts))

split_into_sentences(text) == StripNonEmpty(SplitAtSentenceEnd(text, <<>>, <<>>))

(***************************************************************************)
(* create_subtitles  (subtitles/generator.py 30-267)                       *)
(***************************************************************************)
MaxSegs == 2         \* most segments of a transcript handed to create_subtitles
MaxNameLen == 3      \* most characters of a short output file name
MaxLongLen == 48     \* most characters of a long sentence
MaxTick == 2         \* largest segment time, in ticks of 1/2000 s
MaxTextLen == 4      \* longest flat text of a transcript without segments

\* The attributes that tell the built-in styles apart (lines 67-142)
en_style ==
    [fontname |-> "Apple Braille", fontsize |-> 30, bold |-> 0, outline |-> "1",
     alignment |-> 2, marginv |-> 5]
cn_style ==
    [fontname |-> "PingFang SC", fontsize |-> 48, bold |-> -1, outline |-> "1",
     alignment |-> 2, marginv |-> 10]
cn_tip_style ==
    [fontname |-> "PingFang SC", fontsize |-> 48, bold |-> -1, outline |-> "1.5",
     alignment |-> 7, marginv |-> 10]

NoStyle == [none |-> TRUE]

\* Lines 64-151: the style mapping of the document
Styles(style) ==
    IF style = NoStyle
    THEN [n \in {"EN", "CN", "CN - tip", "Default"} |->
            CASE n = "EN" -> en_style
              [] n = "CN" -> cn_style
              [] n = "CN - tip" -> cn_tip_style
              [] OTHER -> cn_style]
    ELSE [n \in {"Default"} |-> style]

\* int(seconds * 1000) for a time of t ticks (t >= 0)
ToMs(t) == (t * 1000) \div 2000

Event(start, end, text, style) ==
    [start |-> start, end |-> end, text |-> text, style |-> style]

\* Lines 157-159
original_segments(original) ==
    IF original # NoTranscript /\ original.segments # <<>>
    THEN original.segments ELSE <<>>

\* Variant: "else" in place of "elif text" at line 195
SegmentEvents_AlwaysCue(segment, i, original) ==
    LET start_time == ToMs(segment.start)
        end_time == ToMs(segment.end)
        text == Strip(segment.text)
    IN  IF /\ original # NoTranscript
           /\ original_segments(original) # <<>>
           /\ i - 1 < Len(original_segments(original))
           /\ text # <<>>
        THEN <<Event(start_time, end_time,
                     Strip(original_segments(original)[i].text), "EN"),
               Event(start_time, end_time, text, "CN")>>
        ELSE <<Event(start_time, end_time, text, "Default")>>

\* Variant: the two cues of a pair in the other order
SegmentEvents_CNFirst(segment, i, original) ==
    LET start_time == ToMs(segment.start)
        end_time == ToMs(segment.end)
        text == Strip(segment.text)
    IN  IF /\ original # NoTranscript
           /\ original_segments(original) # <<>>
           /\ i - 1 < Len(original_segments(original))
           /\ text # <<>>
        THEN <<Event(start_time, end_time, text, "CN"),
               Event(start_time, end_time,
                     Strip(original_segments(original)[i].text), "EN")>>
        ELSE IF text # <<>>
             THEN <<Event(start_time, end_time, text, "Default")>>
             ELSE <<>>

\* Lines 162-203: the cues of segment number i (counted from 1 here)
SegmentEvents(segment, i, original) ==
    LET start_time == ToMs(segment.start)
        end_time == ToMs(segment.end)
        text == Strip(segment.text)
    IN  IF /\ original # NoTranscript
           /\ original_segments(original) # <<>>
           /\ i - 1 < Len(original_segments(original))
           /\ text # <<>>
        THEN <<Event(start_time, end_time,
                     Strip(original_segments(original)[i].text), "EN"),
               Event(start_time, end_time, text, "CN")>>
        ELSE IF text # <<>>
             THEN <<Event(start_time, end_time, text, "Default")>>
             ELSE <<>>

\* Variant: each segment's cues are inserted at the front of the event list
RECURSIVE SegmentLoop_Reversed(_, _, _)
SegmentLoop_Reversed(segments, i, original) ==
    IF i > Len(segments) THEN <<>>
    ELSE SegmentLoop_Reversed(segments, i + 1, original)
         \o SegmentEvents(segments[i], i, original)

\* Line 161: the loop over the segments, in order
RECURSIVE SegmentLoop(_, _, _)
SegmentLoop(segments, i, original) ==
    IF i > Len(segments) THEN <<>>
    ELSE SegmentEvents(segments[i], i, original)
         \o SegmentLoop(segments, i + 1, original)

display_time == 3000

\* Variant: the next cue starts where the previous one ends
NextStart_NoGap(end_time) == end_time

\* Line 260: a small gap between subtitles
NextStart(end_time) == end_time + 100

\* Lines 224-260: the loop over the chunks, with estimated timing
RECURSIVE ChunkLoop(_, _, _, _)
ChunkLoop(chunks, i, original_chunks, start_time) ==
    IF i > Len(chunks) THEN <<>>
    ELSE LET duration == Max(display_time, (Len(chunks[i]) * 1000) \div 15)
             end_time == start_time + duration
         IN  (IF original_chunks # <<>> /\ i - 1 < Len(original_chunks)
              THEN <<Event(start_time, end_time, original_chunks[i], "EN"),
                     Event(start_time, end_time, chunks[i], "CN")>>
              ELSE <<Event(start_time, end_time, chunks[i], "Default")>>)
             \o ChunkLoop(chunks, i + 1, original_chunks, NextStart(end_time))

\* Lines 206-217
ChunkEvents(text, max_chars_per_line, original) ==
    LET chunks == create_subtitle_chunks(split_into_sentences(text), max_chars_per_line)
        original_chunks ==
            IF original # NoTranscript
            THEN create_subtitle_chunks(split_into_sentences(original.text),
                                        max_chars_per_line)
            ELSE <<>>
    IN  ChunkLoop(chunks, 1, original_chunks, 0)

\* Line 26: the characters the second substitution deletes
Stripped == {"&", "?", "*", ":", ";", "|", "<", ">"}

\* Line 24: re.sub(r"\s+", "_", filename)
RECURSIVE CollapseWhitespace(_)
CollapseWhitespace(s) ==
    IF s = <<>> THEN <<>>
    ELSE IF IsSpace(Head(s)) THEN <<"_">> \o CollapseWhitespace(LStrip(Tail(s)))
    ELSE <<Head(s)>> \o CollapseWhitespace(Tail(s))

\* Line 26: re.sub(r"[&?*:;|<>]", "", sanitized)
DeleteStripped(s) == SelectSeq(s, LAMBDA c : c \notin Stripped)

\* Variant: the two substitutions in the other order
sanitize_filename_DeleteFirst(filename) ==
    CollapseWhitespace(DeleteStripped(filename))

\* Lines 13-27
sanitize_filename(filename) == DeleteStripped(CollapseWhitespace(filename))

\* A path is its parent directory and its final component (a text)
Path(parent, name) == [parent |-> parent, name |-> name]
NoPath == [none |-> TRUE]
NoResult == [none |-> TRUE]

\* transcript.get("text", "") and transcript.get("segments")
GetText(trans) == IF "text" \in DOMAIN trans THEN trans.text ELSE <<>>
GetSegments(trans) == IF "segments" \in DOMAIN trans THEN trans.segments ELSE <<>>

\* Variant: no handler around the body, an exception leaves as it was raised
Wrap_Passthrough(e) == e

\* Lines 266-267: whatever is raised inside the body leaves as a SubtitleError
Wrap(e) == "SubtitleError"

\* The call ends with exception e raised inside the body; nothing was saved
Raised(e) ==
    [ok |-> FALSE, error |-> Wrap(e), styles |-> <<>>, events |-> <<>>,
     path |-> NoPath, written |-> NoPath]

\* Lines 50-267.  save_ok: whether subs.save (line 263) succeeds; a failing
\* save raises before the file exists.  written is the path handed to save.
create_subtitles(trans, output_file, max_chars_per_line, style, original, save_ok) ==
    LET sanitized_output_file ==
            Path(output_file.parent, sanitize_filename(output_file.name))
        text == GetText(trans)
    IN  IF text = <<>> THEN Raised("SubtitleError")
        ELSE IF ~save_ok THEN Raised("OSError")
        ELSE [ok |-> TRUE, error |-> None,
              styles |-> Styles(style),
              events |-> IF GetSegments(trans) # <<>>
                         THEN SegmentLoop(trans.segments, 1, original)
                         ELSE ChunkEvents(text, max_chars_per_line, original),
              path |-> sanitized_output_file,
              written |-> sanitized_output_file]

\* Inputs: transcripts with segments, and transcripts with flat text only
TimePairs == {p \in (0..MaxTick) \X (0..MaxTick) : p[1] <= p[2]}
SubSegments == {Segment(p[1], p[2], t) : p \in TimePairs, t \in SegTexts}
FlatTexts == SeqsUpTo({"a", " ", "."}, MaxTextLen)
CustomStyle ==
    [fontname |-> "Arial", fontsize |-> 20, bold |-> 0, outline |-> "2",
     alignment |-> 2, marginv |-> 10]

\* Secondary transcripts: absent, or n segments of text
Secondary(n) == Transcript(<<"e">>, TimedSegs([i \in 1..n |-> <<"e">>]), "en")
Secondaries ==
    {NoTranscript} \cup {Secondary(n) : n \in 0..(MaxSegs + 1)}
      \cup {Transcript(<<"e">>, TimedSegs(<<<<>>, <<" ", "e">>>>), "en")}

\* Output file names: short stems over NameChars with the suffix .ass (save
\* takes the format from the suffix), and a long name
NameChars == {"a", " ", "\t", ":", "#"}
DotAss == <<".", "a", "s", "s">>
LongName ==
    <<"M", "y", " ", "M", "o", "v", "i", "e", ":", " ",
      "C", "u", "t", " ", "#", "1", ".", "a", "s", "s">>
Names == {stem \o DotAss : stem \in SeqsUpTo(NameChars, MaxNameLen)} \cup {LongName}
PlainFile == Path("/v", <<"o">> \o DotAss)

\* Transcripts whose text is absent or empty, with and without segments
Textless ==
    {[segments |-> segs, language |-> "zh"] :
        segs \in {<<>>, TimedSegs(<<<<"a">>>>)}}
    \cup {Transcript(<<>>, TimedSegs(<<<<"a">>>>), "zh")}

\* Long flat texts: a sentence of up to MaxLongLen characters, alone or
\* followed by a sentence of 12, and a short text of two sentences
SentenceOf(n) == [i \in 1..n |-> IF i = n THEN "." ELSE "a"]
LongLens == (MaxLongLen - 4)..MaxLongLen
HelloText ==
    <<"H", "e", "l", "l", "o", ".", " ",
      "H", "o", "w", " ", "a", "r", "e", " ", "y", "o", "u", "?">>
LongTexts ==
    {SentenceOf(n) : n \in LongLens}
    \cup {SentenceOf(n) \o <<" ">> \o SentenceOf(12) : n \in LongLens}
    \cup {HelloText}

SubInputs ==
    [phase : {"input"},
     transcript : {Transcript(t, segs, "zh") :
                     t \in {<<>>, <<"a">>}, segs \in SeqsUpTo(SubSegments, MaxSegs)},
     output_file : {PlainFile},
     original_transcript : Secondaries,
     max_chars_per_line : {42},
     style : {NoStyle, CustomStyle},
     save_ok : BOOLEAN,
     result : {NoResult}]
    \cup
    [phase : {"input"},
     transcript : {Transcript(t, <<>>, "zh") : t \in FlatTexts},
     output_file : {PlainFile},
     original_transcript : {NoTranscript, Transcript(<<"e", ".", " ", "e">>, <<>>, "en")},
     max_chars_per_line : {1, 42},
     style : {NoStyle},
     save_ok : {TRUE},
     result : {NoResult}]
    \cup
    [phase : {"input"},
     transcript : {Transcript(t, <<>>, "zh") : t \in LongTexts},
     output_file : {PlainFile},
     original_transcript : {NoTranscript, Transcript(<<"e", ".", " ", "e">>, <<>>, "en")},
     max_chars_per_line : {1, 30, 42},
     style : {NoStyle},
     save_ok : {TRUE},
     result : {NoResult}]
    \cup
    [phase : {"input"},
     transcript : {Transcript(<<"a">>, <<>>, "zh")} \cup Textless,
     output_file : {Path(p, n) : p \in {"/v", "/my v"}, n \in Names},
     original_transcript : {NoTranscript},
     max_chars_per_line : {42},
     style : {NoStyle},
     save_ok : BOOLEAN,
     result : {NoResult}]

SubInit == sub \in SubInputs

SubCall ==
    /\ sub.phase = "input"
    /\ sub' = [sub EXCEPT !.phase = "returned",
                          !.result = create_subtitles(sub.transcript,
                                        sub.output_file, sub.max_chars_per_line,
                                        sub.style, sub.original_transcript,
                                        sub.save_ok)]
    /\ UNCHANGED <<chk, tr, aud, enc, procVars>>

(***************************************************************************)
(* extract_audio  (utils/media.py 120-237): the argument list              *)
(*                                                                         *)
(* duration is in whole seconds and max_size in half megabytes (39 is the  *)
(* default 19.5 MB), so that the float comparisons of the code are exact   *)
(* integer comparisons: estimated_size_mb > max_size_mb is                 *)
(* duration * bytes_per_second > max_bytes, and max_sample_rate < r is     *)
(* max_bytes < r * duration * 2.  An absent optional argument is 0.        *)
(***************************************************************************)
MaxDurationMin == 30     \* longest video, in minutes

Arg(opt, val) == [opt |-> opt, val |-> val]

max_bytes(max_size) == max_size * 524288

\* Lines 176-182: the test on the size estimated at 16 kHz, mono, 16 bit
TooLarge(duration, max_size) ==
    duration * (16000 * 2 * 1) > max_bytes(max_size) /\ duration > 0

\* Variant: the ladder rounds the rate that fits up to the next common rate
Ladder_RoundUp(duration, max_size) ==
    LET below(r) == max_bytes(max_size) < r * duration * 2
    IN  IF below(8000) THEN 8000
        ELSE IF below(16000) THEN 16000
        ELSE IF below(22050) THEN 22050
        ELSE 44100

\* Lines 189-199: the ladder, with max_sample_rate = max_bytes / duration / 2
Ladder(duration, max_size) ==
    LET below(r) == max_bytes(max_size) < r * duration * 2
    IN  IF below(8000) THEN 8000
        ELSE IF below(16000) THEN 8000
        ELSE IF below(22050) THEN 16000
        ELSE IF below(44100) THEN 22050
        ELSE 44100

\* Lines 170-199
calculated_sample_rate(duration, max_size) ==
    IF TooLarge(duration, max_size) THEN Ladder(duration, max_size) ELSE 16000

\* Variant: small mode fills in only the arguments the caller left out
EffectiveSettings_ExplicitWins(small, duration, max_size, sample_rate, channels, bit_depth) ==
    IF small
    THEN [sample_rate |-> IF sample_rate # 0 THEN sample_rate
                          ELSE calculated_sample_rate(duration, max_size),
          channels |-> IF channels # 0 THEN channels ELSE 1,
          bit_depth |-> IF bit_depth # 0 THEN bit_depth ELSE 16]
    ELSE [sample_rate |-> sample_rate, channels |-> channels, bit_depth |-> bit_depth]

\* Lines 165-203: the values in effect after the small-mode block
EffectiveSettings(small, duration, max_size, sample_rate, channels, bit_depth) ==
    IF small
    THEN [sample_rate |-> calculated_sample_rate(duration, max_size),
          channels |-> 1, bit_depth |-> 16]
    ELSE [sample_rate |-> sample_rate, channels |-> channels, bit_depth |-> bit_depth]

\* Lines 213-222
Subtype(bit_depth) ==
    IF bit_depth = 8 THEN "pcm_u8"
    ELSE IF bit_depth = 16 THEN "pcm_s16le"
    ELSE IF bit_depth = 24 THEN "pcm_s24le"
    ELSE "pcm_s16le"

\* Lines 162-230: the command, as option/value pairs after the input file
extract_audio_cmd(duration, max_size, small, sample_rate, channels, bit_depth, format, audio_opts) ==
    LET eff == EffectiveSettings(small, duration, max_size, sample_rate, channels,
                                 bit_depth)
    IN  (IF eff.sample_rate # 0 THEN <<Arg("-ar", eff.sample_rate)>> ELSE <<>>)
        \o (IF eff.channels # 0 THEN <<Arg("-ac", eff.channels)>> ELSE <<>>)
        \o (IF eff.bit_depth # 0 /\ format = "wav"
            THEN <<Arg("-acodec", Subtype(eff.bit_depth))>> ELSE <<>>)
        \o audio_opts

MaxSizes == {10, 39, 100}

\* The durations of the model, in seconds: whole minutes, and one hour
Durations == {60 * m : m \in 0..MaxDurationMin} \cup {3600}

AudInit ==
    /\ aud \in [phase : {"input"},
                duration : Durations,
                max_size : MaxSizes,
                small : BOOLEAN,
                sample_rate : {0, 8000, 44100},
                channels : {0, 2},
                bit_depth : {0, 8, 24, 32},
                format : {"wav", "mp3"},
                audio_opts : {<<>>, <<Arg("-ar", 48000)>>},
                cmd : {<<>>}]

AudCall ==
    /\ aud.phase = "input"
    /\ aud' = [aud EXCEPT !.phase = "returned",
                          !.cmd = extract_audio_cmd(aud.duration, aud.max_size,
                                     aud.small, aud.sample_rate, aud.channels,
                                     aud.bit_depth, aud.format, aud.audio_opts)]
    /\ UNCHANGED <<chk, tr, sub, enc, procVars>>

(***************************************************************************)
(* embed_subtitles  (encode/subtitle.py 40-331)                            *)
(*                                                                         *)
(* The arguments are a record a with one field per parameter; an absent    *)
(* optional argument is "" (NoFile for a path, <<>> for the options).  The *)
(* environment env says which input files exist, whether the probe of the  *)
(* video succeeds and whether the ffmpeg process succeeds.  The command is *)
(* the sequence of its words.                                              *)
(***************************************************************************)
\* A file path: directory, stem and suffix; str(path) joins them
File(dir, stem, suffix) == [dir |-> dir, stem |-> stem, suffix |-> suffix]
NoFile == [none |-> TRUE]
Str(path) == path.dir \o "/" \o path.stem \o path.suffix

\* Lines 33-34 on a part of a path of the model: ":" becomes "\:" and "'"
\* becomes "'\''" (no part holds a backslash)
EscapePart(s) ==
    CASE s = "m:1" -> "m\\:1"
      [] s = "it's" -> "it'\\''s"
      [] OTHER -> s

\* Lines 18-37
escape_path_for_ffmpeg(path) ==
    "'" \o EscapePart(path.dir) \o "/" \o EscapePart(path.stem)
        \o EscapePart(path.suffix) \o "'"

\* Lines 191-206
alignment_map(position) ==
    CASE Lower(position) = "tc" -> "8"
      [] OTHER -> "2"

\* ",".join(parts)
RECURSIVE Join(_)
Join(parts) ==
    IF Len(parts) = 1 THEN parts[1] ELSE parts[1] \o "," \o Join(Tail(parts))

\* Lines 177-207: one part per override supplied
force_style_parts(a) ==
    (IF a.font_name # "" THEN <<"FontName=" \o a.font_name>> ELSE <<>>)
    \o (IF a.font_size # "" THEN <<"FontSize=" \o a.font_size>> ELSE <<>>)
    \o (IF a.font_color # "" THEN <<"PrimaryColour=&H" \o a.font_color>> ELSE <<>>)
    \o (IF a.outline_color # "" THEN <<"OutlineColour=&H" \o a.outline_color>> ELSE <<>>)
    \o (IF a.outline_width # "" THEN <<"Outline=" \o a.outline_width>> ELSE <<>>)
    \o (IF a.position # "" THEN <<"Alignment=" \o alignment_map(a.position)>> ELSE <<>>)

\* Lines 161-218
subtitle_filter(a) ==
    LET is_ass_file == Lower(a.subtitle_path.suffix) \in {".ass", ".ssa"}
        escaped_subtitle_path == escape_path_for_ffmpeg(a.subtitle_path)
        parts == force_style_parts(a)
    IN  IF is_ass_file /\ parts = <<>> THEN "subtitles=" \o escaped_subtitle_path
        ELSE IF parts = <<>> THEN "subtitles=" \o escaped_subtitle_path
        ELSE "subtitles=" \o escaped_subtitle_path \o ":force_style='"
               \o Join(Append(parts, "BorderStyle=1")) \o "'"

\* Variant: the render method is the one the caller passed
RenderMethod_AsPassed(a) == a.render_method

\* Lines 113-118: burning with hardware acceleration forces software rendering
RenderMethod(a) ==
    IF a.burn_subtitles /\ a.use_hardware_accel THEN "sw" ELSE a.render_method

\* Lines 127-158: the acceleration options and the stages around the filter
HwInit(a) ==
    LET sw == RenderMethod(a) = "sw"
        setup(device, upload) ==
            IF sw
            THEN [cmd |-> <<"-hwaccel", device>>,
                  filter_prefix |-> "format=nv12,", filter_suffix |-> upload]
            ELSE [cmd |-> <<"-hwaccel", device, "-hwaccel_output_format", device>>,
                  filter_prefix |-> "", filter_suffix |-> ""]
    IN  IF a.use_hardware_accel /\ a.hw_device = "vaapi"
        THEN setup("vaapi", ",hwupload")
        ELSE IF a.use_hardware_accel /\ a.hw_device = "cuda"
        THEN setup("cuda", ",hwupload_cuda")
        ELSE IF a.use_hardware_accel /\ a.hw_device = "qsv"
        THEN setup("qsv", ",hwupload=extra_hw_frames=64")
        ELSE [cmd |-> <<>>, filter_prefix |-> "", filter_suffix |-> ""]

libvpx_vp9 == <<"-c:v", "libvpx-vp9", "-crf", "30", "-b:v", "0">>
libaom_av1 == <<"-c:v", "libaom-av1", "-crf", "30", "-b:v", "0">>

\* Lines 238-273: what is appended when no branch names the device or the codec
NoBranchTaken == <<>>

\* Lines 238-273: the video encoder options of burn mode
VideoEncoder(a) ==
    IF a.use_hardware_accel
    THEN CASE a.hw_device = "vaapi" /\ a.codec = "h264" -> <<"-c:v", "h264_vaapi", "-qp", "18">>
           [] a.hw_device = "vaapi" /\ a.codec = "vp9" -> <<"-c:v", "vp9_vaapi", "-qp", "20">>
           [] a.hw_device = "vaapi" /\ a.codec = "av1" -> <<"-c:v", "av1_vaapi", "-qp", "20">>
           [] a.hw_device = "cuda" /\ a.codec = "h264" ->
                <<"-c:v", "h264_nvenc", "-preset", "p4", "-qp", "18">>
           [] a.hw_device = "cuda" /\ a.codec = "vp9" -> libvpx_vp9
           [] a.hw_device = "cuda" /\ a.codec = "av1" -> libaom_av1
           [] a.hw_device = "qsv" /\ a.codec = "h264" -> <<"-c:v", "h264_qsv", "-q", "18">>
           [] a.hw_device = "qsv" /\ a.codec = "vp9" -> libvpx_vp9
           [] a.hw_device = "qsv" /\ a.codec = "av1" -> libaom_av1
           [] OTHER -> NoBranchTaken
    ELSE CASE a.codec = "vp9" -> libvpx_vp9 \o <<"-c:a", "libopus", "-b:a", "128k">>
           [] a.codec = "h264" -> <<"-c:v", "libx264", "-crf", "18", "-preset", "fast">>
           [] a.codec = "av1" -> libaom_av1
           [] OTHER -> NoBranchTaken

\* Lines 160-273: burn mode
BurnArgs(a) ==
    LET hw == HwInit(a)
        complete_filter == hw.filter_prefix \o subtitle_filter(a) \o hw.filter_suffix
    IN  <<"-map", "0:v", "-map", "0:a?", "-c:a", "copy", "-vf", complete_filter>>
        \o VideoEncoder(a)

\* Variant: every container takes a subtitle stream
MuxRaises_Never(output_format) == FALSE

\* Lines 296-302: muxing into webm raises EncodeError
MuxRaises(output_format) == output_format = "webm"

\* Lines 274-304: mux mode; webm has no subtitle codec (the call raises)
MuxArgs(a, output_format) ==
    <<"-i", Str(a.subtitle_path), "-map", "0:v", "-map", "0:a?", "-map", "1",
      "-c:v", "copy", "-c:a", "copy">>
    \o (IF output_format = "mp4" THEN <<"-c:s", "mov_text">> ELSE <<"-c:s", "copy">>)

\* Lines 307-309: one option and its value per entry
RECURSIVE OptionArgs(_)
OptionArgs(encoding_options) ==
    IF encoding_options = <<>> THEN <<>>
    ELSE <<"-" \o Head(encoding_options).k, Head(encoding_options).v>>
         \o OptionArgs(Tail(encoding_options))

\* Lines 105-111
OutputPath(a, output_format) ==
    IF a.output_path = NoFile
    THEN File(a.video_path.dir, a.video_path.stem \o "-sub", "." \o output_format)
    ELSE IF Lower(a.output_path.suffix) # "." \o output_format
         THEN [a.output_path EXCEPT !.suffix = "." \o output_format]
         ELSE a.output_path

\* The call raises EncodeError; started: whether ffmpeg had been started
EncodeError(cmd, started) ==
    [ok |-> FALSE, error |-> "EncodeError", cmd |-> cmd, started |-> started,
     path |-> NoFile]

\* Lines 86-331
embed_subtitles(a, env) ==
    LET output_format == Lower(a.output_format)
        output_path == OutputPath(a, output_format)
        cmd == <<"ffmpeg", "-y">> \o HwInit(a).cmd \o <<"-i", Str(a.video_path)>>
               \o (IF a.burn_subtitles THEN BurnArgs(a) ELSE MuxArgs(a, output_format))
               \o OptionArgs(a.encoding_options)
               \o (IF a.show_progress THEN <<"-stats">> ELSE <<>>)
               \o <<Str(output_path)>>
    IN  IF ~env.video_exists THEN EncodeError(<<>>, FALSE)
        ELSE IF ~env.subtitle_exists THEN EncodeError(<<>>, FALSE)
        ELSE IF ~env.probe_ok THEN EncodeError(<<>>, FALSE)
        ELSE IF output_format \notin {"mkv", "mp4", "webm"} THEN EncodeError(<<>>, FALSE)
        ELSE IF ~a.burn_subtitles /\ MuxRaises(output_format)
             THEN EncodeError(<<>>, FALSE)
        ELSE IF ~env.run_ok THEN EncodeError(cmd, TRUE)
        ELSE [ok |-> TRUE, error |-> None, cmd |-> cmd, started |-> TRUE,
              path |-> output_path]

\* Subtitle files and style overrides
NoOverrides ==
    [font_name |-> "", font_size |-> "", font_color |-> "", outline_width |-> "",
     outline_color |-> "", position |-> ""]
Styling ==
    {[subtitle_path |-> File("/v", "m-zh", ".ass")] @@ NoOverrides,
     [subtitle_path |-> File("/v", "m:1", ".srt")] @@ NoOverrides,
     [subtitle_path |-> File("/v", "it's", ".ASS"), font_name |-> "Arial"]
        @@ NoOverrides,
     [subtitle_path |-> File("/v", "m-zh", ".ass"), font_name |-> "Arial",
      font_size |-> "24", font_color |-> "FFFFFF", outline_width |-> "1.5",
      outline_color |-> "000000", position |-> "TC"]}

\* Output path, extra options, progress display
Extras ==
    {[output_path |-> NoFile, encoding_options |-> <<>>, show_progress |-> TRUE],
     [output_path |-> File("/o", "out", ".MKV"), encoding_options |-> <<>>,
      show_progress |-> FALSE],
     [output_path |-> File("/o", "out", ".mp4"),
      encoding_options |-> <<[k |-> "preset", v |-> "slow"]>>,
      show_progress |-> TRUE]}

\* The options that choose the mode, the container and the encoder; "amf"
\* and "hevc" are values the function does not list among its options
Choices ==
    [burn_subtitles : BOOLEAN,
     output_format : {"mkv", "MP4", "webm", "WEBM", "avi"},
     use_hardware_accel : BOOLEAN,
     hw_device : {"vaapi", "cuda", "qsv", "amf"},
     render_method : {"hw", "sw"},
     codec : {"h264", "vp9", "av1", "hevc"}]

EncArgs ==
    {[video_path |-> File("/v", "m 1", ".mp4")] @@ s @@ x @@ c :
        s \in Styling, x \in Extras, c \in Choices}

Envs ==
    LET ok == [video_exists |-> TRUE, subtitle_exists |-> TRUE, probe_ok |-> TRUE,
               run_ok |-> TRUE]
    IN  {ok, [ok EXCEPT !.video_exists = FALSE], [ok EXCEPT !.subtitle_exists = FALSE],
         [ok EXCEPT !.probe_ok = FALSE], [ok EXCEPT !.run_ok = FALSE]}

EncInit == enc \in [phase : {"input"}, a : EncArgs, env : Envs, result : {NoResult}]

EncCall ==
    /\ enc.phase = "input"
    /\ enc' = [enc EXCEPT !.phase = "returned",
                          !.result = embed_subtitles(enc.a, enc.env)]
    /\ UNCHANGED <<chk, tr, sub, aud, procVars>>

(***************************************************************************)
(* process  (cli.py 31-242): the orchestrator                              *)
(*                                                                         *)
(* The outcome of each external stage (the transcoder, the remote calls,   *)
(* the file system) is chosen by the environment.  translate_text and      *)
(* create_subtitles are the operators above.                               *)
(***************************************************************************)
MaxProcSegs == 2     \* most segments transcribe_audio returns in a run

\* Names of the media file of a run: without and with whitespace
MediaNames == {<<"m", "1", ".", "m", "p", "4">>, <<"m", " ", "1", ".", "m", "p", "4">>}

Options ==
    [media_exists : BOOLEAN,
     is_video : BOOLEAN,
     keep_extracted : BOOLEAN,
     no_translate : BOOLEAN,
     dual_subtitles : BOOLEAN,
     target_language : {"en", "EN", "zh"},
     encode_video : BOOLEAN,
     burn_subtitles : BOOLEAN,
     output_format : {"mkv", "MP4", "webm"},
     deepl_api_key : {"", "k"},
     env_deepl_api_key : {"", "e"},
     media_name : MediaNames]

\* Lines 47-52: the option, read from DEEPL_API_KEY when not given ("" is None)
DeeplOption(o) ==
    IF o.deepl_api_key # "" THEN o.deepl_api_key ELSE o.env_deepl_api_key

\* The media file of the run
media_file(o) == Path("/v", o.media_name)
Stem(name) == SubSeq(name, 1, Len(name) - 4)
LangChars(l) == IF Lower(l) = "en" THEN <<"e", "n">> ELSE <<"z", "h">>

\* Lines 131-148: the subtitle path when --output is not given
DefaultOutputFile(o) ==
    LET lang_suffix ==
            IF o.no_translate THEN <<"-", "e", "n">>
            ELSE IF o.dual_subtitles /\ Lower(o.target_language) # "en"
                 THEN <<"-">> \o LangChars(o.target_language) \o <<"&", "e", "n">>
                 ELSE <<"-">> \o LangChars(o.target_language)
    IN  Path(media_file(o).parent,
             Stem(media_file(o).name) \o lang_suffix \o <<".", "a", "s", "s">>)

\* The characters of the container name
FormatChars(output_format) ==
    CASE output_format = "mkv" -> <<"m", "k", "v">>
      [] output_format = "MP4" -> <<"M", "P", "4">>
      [] output_format = "webm" -> <<"w", "e", "b", "m">>

\* Lines 208-213: the path of the encoded video when --encoded-output is not given
DefaultEncodedOutput(o) ==
    LET suffix == IF o.burn_subtitles
                  THEN <<"-", "s", "u", "b", "t", "i", "t", "l", "e", "d">>
                  ELSE <<"-", "s", "u", "b", "-", "m", "u", "x", "e", "d">>
    IN  Path(media_file(o).parent,
             Stem(media_file(o).name) \o suffix \o <<".">> \o FormatChars(o.output_format))

\* What transcribe_audio can return
ProcTranscripts ==
    {Transcript(t, TimedSegs(texts), None) :
        t \in {<<>>, <<"a">>}, texts \in SeqsUpTo({<<>>, <<"a">>}, MaxProcSegs)}

\* embed_subtitles returns, or raises EncodeError for one of these reasons
EncodeOutcomes == {"ok", "missing_input", "probe", "format", "process"}

NoCall == [none |-> TRUE]

Stage(name, ok) == [stage |-> name, ok |-> ok]

\* Variant: the target language is compared as written
WantsTranslation_CaseSensitive(o) == ~o.no_translate /\ o.target_language # "en"

\* Lines 172 and 176
WantsTranslation(o) == ~o.no_translate /\ Lower(o.target_language) # "en"

\* Lines 166-167, 202-203, 234-238: unlink the extracted audio if temporary
Unlink(o, ea, exists) ==
    IF ea # "none" /\ ~o.keep_extracted /\ o.is_video THEN FALSE ELSE exists

\* Lines 127-129: the handler of a failed extraction
ExtractFailureCleanup(o, ea, exists) == exists

\* raise typer.Exit(code)
Exit(code) == [pc |-> "done", exitCode |-> code]

\* Falling through to the statement at the given position
Continue(next) == [pc |-> next, exitCode |-> -1]

Goto(h) ==
    /\ pc' = h.pc
    /\ exitCode' = h.exitCode

\* Lines 127-129
OnMediaError == Exit(1)

\* Lines 163-168
OnTranscriptionError == Exit(1)

\* Variant: a failed translation ends the run
OnTranslationError_Exit == Exit(1)

\* Variant: a failed translation is tried again
OnTranslationError_Retry == Continue("translate")

\* Lines 185-188: the run continues with the subtitle stage
OnTranslationError == Continue("subtitles")

\* Variant: the handler leaves original_transcript as it was
OriginalKept(original) == original

\* Line 188: original_transcript after a failed translation
OriginalAfterTranslationError(original) == NoTranscript

\* Variant: the handler reports the error and falls through
OnSubtitleError_FallThrough == Continue("cleanup")

\* Lines 199-204
OnSubtitleError == Exit(1)

\* Variant: the handler ends the run as the other stages' handlers do
OnEncodeError_Exit == Exit(1)

\* Lines 230-231: an EncodeError is reported and the run goes on to line 233
OnEncodeError == Continue("cleanup")

\* Lines 95-109
Start ==
    /\ pc = "start"
    /\ IF ~opts.media_exists \/ Lower(opts.output_format) \notin {"mkv", "mp4"}
       THEN Goto(Exit(1))
       ELSE Goto(Continue(IF opts.is_video THEN "extract" ELSE "transcribe"))
    /\ UNCHANGED <<opts, extracted_audio, tempExists, tempCreated, transcript,
                   original_transcript, transcribed, invoked, subsCall>>
    /\ UNCHANGED <<trCall, encCall>>
    /\ UNCHANGED pureVars

\* Lines 111-129
Extract ==
    /\ pc = "extract"
    /\ \E ok \in BOOLEAN :
         LET ea == IF opts.keep_extracted THEN "sibling" ELSE "tmp"
         IN  /\ extracted_audio' = ea
             /\ tempCreated' = ~opts.keep_extracted
             /\ invoked' = Append(invoked, Stage("extract", ok))
             /\ IF ok
                THEN /\ tempExists' = ~opts.keep_extracted
                     /\ Goto(Continue("transcribe"))
                ELSE /\ tempExists' =
                          ExtractFailureCleanup(opts, ea, ~opts.keep_extracted)
                     /\ Goto(OnMediaError)
    /\ UNCHANGED <<opts, transcript, original_transcript, transcribed, subsCall>>
    /\ UNCHANGED <<trCall, encCall>>
    /\ UNCHANGED pureVars

\* Lines 163-168
TranscribeFail ==
    /\ pc = "transcribe"
    /\ invoked' = Append(invoked, Stage("transcribe", FALSE))
    /\ tempExists' = Unlink(opts, extracted_audio, tempExists)
    /\ Goto(OnTranscriptionError)
    /\ UNCHANGED <<opts, extracted_audio, tempCreated, transcript,
                   original_transcript, transcribed, subsCall>>
    /\ UNCHANGED <<trCall, encCall>>
    /\ UNCHANGED pureVars

\* Lines 153-162 and 170-173
TranscribeOk ==
    /\ pc = "transcribe"
    /\ \E t \in ProcTranscripts :
         /\ transcript' = t
         /\ transcribed' = t
         /\ original_transcript' =
              IF opts.dual_subtitles /\ WantsTranslation(opts) THEN t
              ELSE NoTranscript
    /\ invoked' = Append(invoked, Stage("transcribe", TRUE))
    /\ Goto(Continue(IF WantsTranslation(opts) THEN "translate" ELSE "subtitles"))
    /\ UNCHANGED <<opts, extracted_audio, tempExists, tempCreated, subsCall>>
    /\ UNCHANGED <<trCall, encCall>>
    /\ UNCHANGED pureVars

\* Lines 175-188
Translate ==
    /\ pc = "translate"
    /\ \E r1 \in Answers(1), r2 \in Answers(MaxProcSegs) :
         LET res == translate_text(transcript, opts.target_language,
                                   DeeplOption(opts), opts.env_deepl_api_key,
                                   r1, r2)
         IN  /\ trCall' = [transcript |-> transcript, api_key |-> DeeplOption(opts),
                           result |-> res]
             /\ invoked' = Append(invoked, Stage("translate", res.ok))
             /\ IF res.ok
                THEN /\ transcript' = res.value
                     /\ UNCHANGED original_transcript
                     /\ Goto(Continue("subtitles"))
                ELSE /\ original_transcript' =
                          OriginalAfterTranslationError(original_transcript)
                     /\ UNCHANGED transcript
                     /\ Goto(OnTranslationError)
    /\ UNCHANGED <<opts, extracted_audio, tempExists, tempCreated, transcribed,
                   subsCall>>
    /\ UNCHANGED encCall
    /\ UNCHANGED pureVars

\* Lines 190-204
Subtitles ==
    /\ pc = "subtitles"
    /\ \E save_ok \in BOOLEAN :
         LET secondary == IF opts.dual_subtitles THEN original_transcript
                          ELSE NoTranscript
             output_file == DefaultOutputFile(opts)
             res == create_subtitles(transcript, output_file, 42, NoStyle,
                                     secondary, save_ok)
         IN  /\ subsCall' = [primary |-> transcript, output_file |-> output_file,
                             secondary |-> secondary, result |-> res]
             /\ invoked' = Append(invoked, Stage("subtitles", res.ok))
             /\ IF res.ok
                THEN /\ Goto(Continue(IF opts.encode_video /\ opts.is_video
                                      THEN "encode" ELSE "cleanup"))
                     /\ UNCHANGED tempExists
                ELSE /\ tempExists' = Unlink(opts, extracted_audio, tempExists)
                     /\ Goto(OnSubtitleError)
    /\ UNCHANGED <<opts, extracted_audio, tempCreated, transcript,
                   original_transcript, transcribed>>
    /\ UNCHANGED <<trCall, encCall>>
    /\ UNCHANGED pureVars

\* Lines 206-231.  The subtitle file exists if create_subtitles wrote it at
\* the path handed over, or if a file was left there before the run; without
\* it embed_subtitles raises EncodeError (subtitle.py 89-90).
Encode ==
    /\ pc = "encode"
    /\ \E leftover \in BOOLEAN, outcome \in EncodeOutcomes :
         LET output_file == DefaultOutputFile(opts)
             subtitle_exists == output_file = subsCall.result.written \/ leftover
         IN  /\ ~subtitle_exists => outcome = "missing_input"
             /\ encCall' = [video_path |-> media_file(opts),
                            subtitle_path |-> output_file,
                            output_path |-> DefaultEncodedOutput(opts),
                            burn_subtitles |-> opts.burn_subtitles,
                            output_format |-> opts.output_format,
                            subtitle_exists |-> subtitle_exists,
                            outcome |-> outcome]
             /\ invoked' = Append(invoked, Stage("encode", outcome = "ok"))
             /\ Goto(IF outcome = "ok" THEN Continue("cleanup") ELSE OnEncodeError)
    /\ UNCHANGED <<opts, extracted_audio, tempExists, tempCreated, transcript,
                   original_transcript, transcribed, subsCall>>
    /\ UNCHANGED trCall
    /\ UNCHANGED pureVars

\* Lines 233-242
Cleanup ==
    /\ pc = "cleanup"
    /\ tempExists' = Unlink(opts, extracted_audio, tempExists)
    /\ Goto(Exit(0))
    /\ UNCHANGED <<opts, extracted_audio, tempCreated, transcript,
                   original_transcript, transcribed, invoked, subsCall>>
    /\ UNCHANGED <<trCall, encCall>>
    /\ UNCHANGED pureVars

ProcIdle ==
    /\ pc = "idle"
    /\ opts = [none |-> TRUE]
    /\ extracted_audio = "none"
    /\ tempExists = FALSE
    /\ tempCreated = FALSE
    /\ transcript = NoTranscript
    /\ original_transcript = NoTranscript
    /\ transcribed = NoTranscript
    /\ invoked = <<>>
    /\ subsCall = NoCall
    /\ trCall = NoCall
    /\ encCall = NoCall
    /\ exitCode = -1

Init ==
    /\ chk = Idle /\ tr = Idle /\ sub = Idle /\ aud = Idle /\ enc = Idle
    /\ pc = "start"
    /\ opts \in Options
    /\ extracted_audio = "none"
    /\ tempExists = FALSE
    /\ tempCreated = FALSE
    /\ transcript = NoTranscript
    /\ original_transcript = NoTranscript
    /\ transcribed = NoTranscript
    /\ invoked = <<>>
    /\ subsCall = NoCall
    /\ trCall = NoCall
    /\ encCall = NoCall
    /\ exitCode = -1

Next ==
    \/ Start
    \/ Extract
    \/ TranscribeFail
    \/ TranscribeOk
    \/ Translate
    \/ Subtitles
    \/ Encode
    \/ Cleanup

Spec == Init /\ [][Next]_vars

(***************************************************************************)
(* Specifications of the pure functions                                    *)
(***************************************************************************)
ChunkSpecInit ==
    ChunkInit /\ tr = Idle /\ sub = Idle /\ aud = Idle /\ enc = Idle /\ ProcIdle
ChunkNext == ChunkCall
ChunkSpec == ChunkSpecInit /\ [][ChunkNext]_vars

TrSpecInit ==
    TrInit /\ chk = Idle /\ sub = Idle /\ aud = Idle /\ enc = Idle /\ ProcIdle
TrNext == TrCall
TrSpec == TrSpecInit /\ [][TrNext]_vars

SubSpecInit ==
    SubInit /\ chk = Idle /\ tr = Idle /\ aud = Idle /\ enc = Idle /\ ProcIdle
SubNext == SubCall
SubSpec == SubSpecInit /\ [][SubNext]_vars

AudSpecInit ==
    AudInit /\ chk = Idle /\ tr = Idle /\ sub = Idle /\ enc = Idle /\ ProcIdle
AudNext == AudCall
AudSpec == AudSpecInit /\ [][AudNext]_vars

EncSpecInit ==
    EncInit /\ chk = Idle /\ tr = Idle /\ sub = Idle /\ aud = Idle /\ ProcIdle
EncNext == EncCall
EncSpec == EncSpecInit /\ [][EncNext]_vars

(***************************************************************************)
(* Properties                                                              *)
(***************************************************************************)
Failed(stage) == \E i \in 1..Len(invoked) : invoked[i] = Stage(stage, FALSE)

FatalStages == {"extract", "transcribe", "subtitles"}

\* C1: when the segment request is answered with a number of translations
\* different from the number of non-empty segment texts submitted,
\* translate_text fails with TranslationError.
C1_MismatchRaises ==
    (/\ tr.phase = "returned"
     /\ Len(tr.result.requests) = 2
     /\ tr.r2.kind = "ok"
     /\ Len(tr.r2.translations) # Len(segment_texts(tr.transcript.segments)))
    => ~tr.result.ok

\* C2: at every termination of a run that created a temporary audio file
\* (video input, keep_extracted off), the file has been deleted.
C2_TempDeleted == (pc = "done" /\ tempCreated) => ~tempExists

\* C3: a failed extraction, transcription or subtitle generation is the last
\* stage invoked and ends the run with exit code 1; a finished run in which
\* no such stage failed has exit code 0.
C3_FatalStages ==
    /\ \A i \in 1..Len(invoked) :
         (invoked[i].stage \in FatalStages /\ ~invoked[i].ok)
         => (i = Len(invoked) /\ pc = "done" /\ exitCode = 1)
    /\ (/\ pc = "done"
        /\ invoked # <<>>
        /\ \A i \in 1..Len(invoked) :
             invoked[i].stage \in FatalStages => invoked[i].ok)
       => exitCode = 0

C3_Witness ==
    /\ pc = "done" /\ exitCode = 1
    /\ Len(invoked) = 4
    /\ invoked[3] = Stage("translate", TRUE)
    /\ invoked[4] = Stage("subtitles", FALSE)

\* The number of cues of a single-language document for a transcript
SingleCueCount(t) ==
    IF t.segments # <<>>
    THEN Cardinality({i \in 1..Len(t.segments) : Strip(t.segments[i].text) # <<>>})
    ELSE Len(create_subtitle_chunks(split_into_sentences(t.text), 42))

\* C4: after a failed translation the run is not aborted, the subtitle
\* builder gets the untranslated transcript and no secondary transcript, and
\* the document has the single-language cue count.
C4_TranslationFailureDegrades ==
    Failed("translate") =>
      /\ transcript = transcribed
      /\ original_transcript = NoTranscript
      /\ invoked[Len(invoked)].stage = "translate"
           => (pc = "subtitles" /\ exitCode = -1)
      /\ subsCall # NoCall =>
           /\ subsCall.primary = transcribed
           /\ subsCall.secondary = NoTranscript
           /\ subsCall.result.ok =>
                /\ Len(subsCall.result.events) = SingleCueCount(transcribed)
                /\ \A k \in 1..Len(subsCall.result.events) :
                     subsCall.result.events[k].style = "Default"

C4_Witness ==
    /\ pc = "done" /\ exitCode = 0
    /\ Failed("translate")
    /\ opts.dual_subtitles
    /\ Len(transcribed.segments) = 2
    /\ Len(subsCall.result.events) = 2

\* C5: a failed encode stage does not end the run with an error: the run
\* goes on to the cleanup and finishes with exit code 0 and no temporary
\* audio file left.
C5_EncodeFailureNotFatal ==
    Failed("encode") =>
      /\ pc \in {"cleanup", "done"}
      /\ subsCall # NoCall /\ subsCall.result.ok
      /\ pc = "cleanup" => exitCode = -1
      /\ pc = "done" => (exitCode = 0 /\ ~tempExists)

C5_Witness ==
    /\ pc = "done" /\ exitCode = 0
    /\ Failed("encode")
    /\ tempCreated /\ ~tempExists

\* The call create_subtitles has returned a document in segment mode
SubReturned ==
    /\ sub.phase = "returned"
    /\ sub.result.ok
    /\ sub.transcript.segments # <<>>

DualMatching ==
    /\ SubReturned
    /\ sub.original_transcript # NoTranscript
    /\ Len(sub.original_transcript.segments) = Len(sub.transcript.segments)

\* C6 as stated: in dual mode with n >= 1 primary segments and exactly n
\* secondary segments the document has exactly 2*n cues.
C6_TwoCuesPerSegment ==
    DualMatching => Len(sub.result.events) = 2 * Len(sub.transcript.segments)

\* C6 amended: in dual mode with n >= 1 primary segments and exactly n
\* secondary segments the document has exactly 2*k cues, k being the number
\* of primary segments whose stripped text is non-empty.
C6_TwoCuesPerSpokenSegment ==
    DualMatching => Len(sub.result.events) = 2 * SingleCueCount(sub.transcript)

C6_Witness ==
    /\ DualMatching
    /\ Len(sub.transcript.segments) = 2
    /\ Len(sub.result.events) = 2

NonDecreasing(seq) == \A i \in 1..(Len(seq) - 1) : seq[i] <= seq[i + 1]

Starts(seq) == [i \in 1..Len(seq) |-> seq[i].start]
Ends(seq) == [i \in 1..Len(seq) |-> seq[i].end]

\* C7: in segment mode, single or dual, a transcript whose segment starts and
\* ends are non-decreasing yields cues whose starts and ends are
\* non-decreasing.
C7_ChronologicalOrder ==
    (/\ SubReturned
     /\ NonDecreasing(Starts(sub.transcript.segments))
     /\ NonDecreasing(Ends(sub.transcript.segments)))
    => /\ NonDecreasing(Starts(sub.result.events))
       /\ NonDecreasing(Ends(sub.result.events))

C7_Witness ==
    /\ DualMatching
    /\ Len(sub.result.events) = 4
    /\ sub.result.events[1].start < sub.result.events[3].start
    /\ sub.result.events[2].end < sub.result.events[4].end

\* A line made of one word that is longer than max_chars_per_line
SingleLongWord(line, max_chars_per_line) ==
    /\ Len(line) > max_chars_per_line
    /\ \A i \in 1..Len(line) : ~IsSpace(line[i])

\* C8: every line of every chunk is at most max_chars_per_line long and every
\* chunk at most 2 * max_chars_per_line, but for a line that is a single
\* word longer than max_chars_per_line.
C8_ChunkBounds ==
    chk.phase = "returned" =>
      \A c \in 1..Len(chk.chunks) :
        LET lines == LinesOf(chk.chunks[c])
            long(l) == SingleLongWord(lines[l], chk.max_chars_per_line)
        IN  /\ \A l \in 1..Len(lines) :
                 Len(lines[l]) <= chk.max_chars_per_line \/ long(l)
            /\ \/ Len(chk.chunks[c]) <= 2 * chk.max_chars_per_line
               \/ \E l \in 1..Len(lines) : long(l)

\* The value the command gives to an option (its first occurrence)
Has(cmd, opt, val) ==
    \E i \in 1..Len(cmd) :
      /\ cmd[i].opt = opt
      /\ cmd[i].val = val
      /\ \A j \in 1..(i - 1) : cmd[j].opt # opt

Carries(sample_rate, channels, bit_depth) ==
    /\ sample_rate # 0 => Has(aud.cmd, "-ar", sample_rate)
    /\ channels # 0 => Has(aud.cmd, "-ac", channels)
    /\ (bit_depth # 0 /\ aud.format = "wav")
         => Has(aud.cmd, "-acodec", Subtype(bit_depth))

\* C9 as stated: an explicit sample_rate, channels or bit_depth is the value
\* the argument list carries, with small mode on or off.
C9_ExplicitWins ==
    aud.phase = "returned" => Carries(aud.sample_rate, aud.channels, aud.bit_depth)

\* C9 amended: with small mode off the argument list carries the explicit
\* sample_rate, channels and bit_depth; with small mode on it carries the
\* values small mode computed (the calculated rate, 1 channel, 16 bit),
\* whatever the caller passed.
C9_ExplicitWinsWithoutSmall ==
    aud.phase = "returned" =>
      IF aud.small
      THEN Carries(calculated_sample_rate(aud.duration, aud.max_size), 1, 16)
      ELSE Carries(aud.sample_rate, aud.channels, aud.bit_depth)

C9_Witness ==
    /\ aud.phase = "returned"
    /\ aud.small
    /\ aud.sample_rate = 44100 /\ aud.channels = 2 /\ aud.bit_depth = 24
    /\ aud.format = "wav"
    /\ Has(aud.cmd, "-ar", 16000)
    /\ Has(aud.cmd, "-ac", 1)
    /\ Has(aud.cmd, "-acodec", "pcm_s16le")

\* C10: in small mode, when the estimate at 16 kHz exceeds max_size_mb, the
\* chosen sample rate is a ladder value at which the estimated size is at
\* most max_size_mb.
C10_LadderFits ==
    (aud.phase = "returned" /\ aud.small /\ TooLarge(aud.duration, aud.max_size))
    => \E r \in {8000, 16000, 22050, 44100} :
         /\ Has(aud.cmd, "-ar", r)
         /\ aud.duration * r * 2 * 1 <= max_bytes(aud.max_size)

\* The size estimated at 16 kHz, mono, 16 bit exceeds the cap: duration * 32000
\* bytes against max_size half-megabytes
EstimateExceeds == aud.duration * 32000 > aud.max_size * 524288

\* C23: in small mode the sample rate of the command is 16000 when the
\* estimate does not exceed max_size_mb or the duration is 0, and 8000 when
\* it does; one hour under the 19.5 MB cap gives 8000; 22050 and 44100 are
\* never the rate of a small-mode command.
C23_SmallModeRate ==
    (aud.phase = "returned" /\ aud.small) =>
      /\ Has(aud.cmd, "-ar", IF EstimateExceeds /\ aud.duration # 0 THEN 8000 ELSE 16000)
      /\ (aud.duration = 3600 /\ aud.max_size = 39) => Has(aud.cmd, "-ar", 8000)
      /\ ~Has(aud.cmd, "-ar", 22050)
      /\ ~Has(aud.cmd, "-ar", 44100)

C23_Witness ==
    /\ aud.phase = "returned"
    /\ aud.small
    /\ aud.duration = 3600 /\ aud.max_size = 39
    /\ aud.sample_rate = 44100
    /\ EstimateExceeds
    /\ Has(aud.cmd, "-ar", 8000)

\* The call create_subtitles has ended
SubDone == sub.phase = "returned"

\* What name[i] contributes to the sanitized name: nothing if it is one of
\* the deleted characters or continues a whitespace run, one underscore if it
\* starts a whitespace run, itself otherwise
Contribution(name, i) ==
    IF name[i] \in Stripped THEN <<>>
    ELSE IF IsSpace(name[i])
         THEN IF i > 1 /\ IsSpace(name[i - 1]) THEN <<>> ELSE <<"_">>
         ELSE <<name[i]>>

RECURSIVE Contributions(_, _)
Contributions(name, i) ==
    IF i > Len(name) THEN <<>>
    ELSE Contribution(name, i) \o Contributions(name, i + 1)

\* A successful call wrote to, and returned, the sanitized name in the
\* parent directory of output_file
SanitizedPath ==
    (SubDone /\ sub.result.ok) =>
        /\ sub.result.path.name = Contributions(sub.output_file.name, 1)
        /\ sub.result.path.parent = sub.output_file.parent
        /\ sub.result.written = sub.result.path

HashDropped ==
    <<"M", "y", "_", "M", "o", "v", "i", "e", "_",
      "C", "u", "t", "_", "1", ".", "a", "s", "s">>
HashKept ==
    <<"M", "y", "_", "M", "o", "v", "i", "e", "_",
      "C", "u", "t", "_", "#", "1", ".", "a", "s", "s">>

\* C11: sanitize_filename replaces every whitespace run by one underscore
\* and deletes every & ? * : ; | < >, "My Movie: Cut #1.ass" becomes
\* "My_Movie_Cut_1.ass", and create_subtitles writes to and returns the
\* sanitized name in the original parent directory.
C11_SanitizedName ==
    /\ SanitizedPath
    /\ (SubDone /\ sub.result.ok /\ sub.output_file.name = LongName)
         => sub.result.path.name = HashDropped

\* C11, amended: as above, but "My Movie: Cut #1.ass" becomes
\* "My_Movie_Cut_#1.ass": the "#" is not one of the deleted characters.
C11_SanitizedNameKeepsHash ==
    /\ SanitizedPath
    /\ (SubDone /\ sub.result.ok /\ sub.output_file.name = LongName)
         => sub.result.path.name = HashKept

C11_Witness ==
    /\ SubDone /\ sub.result.ok
    /\ sub.output_file = Path("/my v", LongName)
    /\ sub.result.written = Path("/my v", HashKept)

NoText(trans) == "text" \notin DOMAIN trans \/ trans.text = <<>>

\* C16: when the transcript's text is empty or absent the call raises
\* SubtitleError and writes no file, also when the transcript has non-empty
\* segments; every failure leaving create_subtitles, a failed save
\* included, is a SubtitleError.
C16_NoTextRaises ==
    SubDone =>
        /\ NoText(sub.transcript) =>
              /\ ~sub.result.ok
              /\ sub.result.error = "SubtitleError"
              /\ sub.result.written = NoPath
        /\ ~sub.result.ok => sub.result.error = "SubtitleError"
        /\ (~NoText(sub.transcript) /\ sub.save_ok) => sub.result.ok

C16_Witness ==
    /\ SubDone
    /\ "text" \notin DOMAIN sub.transcript
    /\ sub.transcript.segments # <<>>
    /\ sub.save_ok
    /\ sub.result.error = "SubtitleError"
    /\ sub.result.written = NoPath

BuiltIn(styles) ==
    /\ {"EN", "CN", "CN - tip"} \subseteq DOMAIN styles
    /\ styles["EN"] = en_style
    /\ styles["CN"] = cn_style
    /\ styles["CN - tip"] = cn_tip_style

\* C17: with no custom style the document registers EN, CN, CN - tip and
\* Default (Default equal to CN); with a caller-supplied style only Default
\* is replaced: EN, CN and CN - tip are still registered with their built-in
\* attributes.
C17_StylesRegistered ==
    (SubDone /\ sub.result.ok) =>
        IF sub.style = NoStyle
        THEN /\ DOMAIN sub.result.styles = {"EN", "CN", "CN - tip", "Default"}
             /\ BuiltIn(sub.result.styles)
             /\ sub.result.styles["Default"] = sub.result.styles["CN"]
        ELSE /\ sub.result.styles["Default"] = sub.style
             /\ BuiltIn(sub.result.styles)

\* Segment mode with a secondary transcript
DualSegmentMode ==
    /\ SubDone /\ sub.result.ok
    /\ sub.transcript.segments # <<>>
    /\ sub.original_transcript # NoTranscript

Spoken(i) == Strip(sub.transcript.segments[i].text) # <<>>
Paired(i) == Spoken(i) /\ i <= Len(sub.original_transcript.segments)

\* The cues of segment i start after those of the segments before it
RECURSIVE CuesBefore(_, _)
CuesBefore(Count(_), i) ==
    IF i = 1 THEN 0 ELSE CuesBefore(Count, i - 1) + Count(i - 1)

\* The events are, segment by segment, Count(i) cues: a pair EN, CN on the
\* segment's time range, or one Default cue, or nothing
Layout(Count(_)) ==
    LET segs == sub.transcript.segments
        ev == sub.result.events
    IN  /\ Len(ev) = CuesBefore(Count, Len(segs) + 1)
        /\ \A i \in 1..Len(segs) :
              LET k == CuesBefore(Count, i)
                  s == ToMs(segs[i].start)
                  t == ToMs(segs[i].end)
              IN  /\ Count(i) = 2 =>
                        /\ ev[k + 1] = Event(s, t,
                              Strip(sub.original_transcript.segments[i].text), "EN")
                        /\ ev[k + 2] = Event(s, t, Strip(segs[i].text), "CN")
                  /\ Count(i) = 1 =>
                        ev[k + 1] = Event(s, t, Strip(segs[i].text), "Default")

ENHasPartner ==
    LET ev == sub.result.events
    IN  \A k \in 1..Len(ev) :
          ev[k].style = "EN" =>
              /\ k < Len(ev)
              /\ ev[k + 1].style = "CN"
              /\ ev[k + 1].start = ev[k].start
              /\ ev[k + 1].end = ev[k].end

PairOrOne(i) == IF Paired(i) THEN 2 ELSE 1
PairOneOrNone(i) == IF Paired(i) THEN 2 ELSE IF Spoken(i) THEN 1 ELSE 0

\* C20: in segment mode with a secondary transcript, a primary segment with
\* non-empty stripped text and an existing secondary segment gives two
\* adjacent cues on the same time range, EN with the secondary text then CN
\* with the primary text; any other segment gives exactly one Default cue;
\* no EN cue is without its CN partner.
C20_PairOrDefault == DualSegmentMode => (Layout(PairOrOne) /\ ENHasPartner)

\* C20, amended: any other segment gives one Default cue if its stripped
\* text is non-empty and no cue if it is empty; the texts are stripped.
C20_PairDefaultOrNothing ==
    DualSegmentMode => (Layout(PairOneOrNone) /\ ENHasPartner)

C20_Witness ==
    /\ DualSegmentMode
    /\ Len(sub.transcript.segments) = 2
    /\ Len(sub.original_transcript.segments) = 1
    /\ Len(sub.result.events) = 3
    /\ sub.result.events[1].style = "EN"
    /\ sub.result.events[2].style = "CN"
    /\ sub.result.events[3].style = "Default"

\* The call translate_text has ended
TrDone == tr.phase = "returned"

\* How many of the first i segments have a non-empty text
RECURSIVE Rank(_, _)
Rank(segments, i) ==
    IF i = 0 THEN 0
    ELSE Rank(segments, i - 1) + (IF segments[i].text # <<>> THEN 1 ELSE 0)

\* C13: on success the returned transcript has as many segments as the
\* input, each segment keeps its start and end, the k-th segment with
\* non-empty text carries the k-th translation of the segment call, and
\* every segment with empty text is returned unchanged in its position.
C13_SegmentsTranslated ==
    (TrDone /\ tr.result.ok) =>
        LET in == tr.transcript.segments
            out == tr.result.value.segments
        IN  /\ Len(out) = Len(in)
            /\ \A i \in 1..Len(in) :
                  /\ out[i].start = in[i].start
                  /\ out[i].end = in[i].end
                  /\ in[i].text = <<>> => out[i] = in[i]
                  /\ in[i].text # <<>> =>
                        /\ tr.r2.kind = "ok"
                        /\ Rank(in, i) <= Len(tr.r2.translations)
                        /\ out[i].text = tr.r2.translations[Rank(in, i)]

\* C14: translate_text does not mutate its input: after any call, successful
\* or failed, the input transcript and each of its segments hold the text,
\* language and timing they had before; the translated values are in the
\* returned record only, a dictionary allocated by the call.
C14_InputNotMutated ==
    TrDone =>
        LET before == Store(tr.transcript)
            t == InputAddr(tr.transcript)
        IN  /\ \A a \in 1..Len(before) : tr.heap[a] = before[a]
            /\ Deref(tr.heap, t) = tr.transcript
            /\ tr.result.ok <=> tr.ret # 0
            /\ tr.result.ok =>
                  /\ tr.ret > Len(before)
                  /\ Deref(tr.heap, tr.ret) = tr.result.value

C14_Witness ==
    /\ TrDone /\ tr.result.ok
    /\ Len(tr.result.requests) = 2
    /\ Len(tr.transcript.segments) = 2
    /\ Len(tr.r2.translations) = 2
    /\ Deref(tr.heap, tr.ret).segments[2].text = tr.r2.translations[2]
    /\ tr.heap[2].text = tr.transcript.segments[2].text
    /\ tr.heap[2].text # tr.r2.translations[2]

Ran(stage) == \E i \in 1..Len(invoked) : invoked[i].stage = stage

NoCredential(o) == o.deepl_api_key = "" /\ o.env_deepl_api_key = ""

\* C15: translate_text called without any credential (neither the argument
\* nor DEEPL_API_KEY), or with an empty transcript text, raises
\* TranslationError before any remote request; in process the credential is
\* looked at only by the translation stage: without it the transcription has
\* still run, and the run does not exit 1 on that account.
C15_CredentialCheckedAtStage ==
    /\ (trCall # NoCall /\ (NoCredential(opts) \/ trCall.transcript.text = <<>>))
         => /\ ~trCall.result.ok
            /\ trCall.result.requests = <<>>
    /\ (NoCredential(opts) /\ WantsTranslation(opts) /\ Ran("subtitles"))
         => /\ trCall # NoCall
            /\ \E i \in 1..(Len(invoked) - 2) :
                  /\ invoked[i] = Stage("transcribe", TRUE)
                  /\ invoked[i + 1] = Stage("translate", FALSE)
                  /\ invoked[i + 2].stage = "subtitles"
    /\ (pc = "done" /\ NoCredential(opts) /\ exitCode = 1)
         => \/ invoked = <<>>
            \/ \E s \in FatalStages : Failed(s)

C15_Witness ==
    /\ pc = "done" /\ exitCode = 0
    /\ NoCredential(opts)
    /\ invoked = <<Stage("transcribe", TRUE), Stage("translate", FALSE),
                   Stage("subtitles", TRUE)>>
    /\ trCall.result.requests = <<>>
    /\ trCall.transcript.text # <<>>

\* C26: in every produced document every cue's style name is a key of the
\* document's style mapping, with or without a custom style, with or without
\* a secondary transcript, in segment and in chunk mode.
C26_CueStylesRegistered ==
    (SubDone /\ sub.result.ok) =>
      \A i \in 1..Len(sub.result.events) :
        sub.result.events[i].style \in DOMAIN sub.result.styles

\* The call embed_subtitles has ended
EncDone == enc.phase = "returned"

\* C12: with output container webm and burn_subtitles false, whatever the
\* other arguments and whether or not the input files exist, the call
\* raises EncodeError and ffmpeg is never started.
C12_WebmMuxRaises ==
    (EncDone /\ ~enc.a.burn_subtitles /\ enc.a.output_format \in {"webm", "WEBM"})
    => /\ ~enc.result.ok
       /\ enc.result.error = "EncodeError"
       /\ ~enc.result.started
       /\ enc.result.cmd = <<>>

C12_Witness ==
    /\ EncDone
    /\ ~enc.a.burn_subtitles /\ enc.a.output_format = "WEBM"
    /\ enc.a.use_hardware_accel /\ enc.a.hw_device = "cuda" /\ enc.a.codec = "vp9"
    /\ enc.a.font_name = "Arial"
    /\ enc.env.video_exists /\ enc.env.subtitle_exists /\ enc.env.probe_ok
    /\ enc.env.run_ok
    /\ enc.result.error = "EncodeError"

\* The values the words of cmd give to option opt
ValuesOf(cmd, opt) ==
    LET at == SelectSeq([i \in 1..Len(cmd) |-> i],
                        LAMBDA i : cmd[i] = opt /\ i < Len(cmd))
    IN  [k \in 1..Len(at) |-> cmd[at[k] + 1]]

HardwareEncoder(device, codec) ==
    CASE device = "vaapi" /\ codec = "h264" -> "h264_vaapi"
      [] device = "vaapi" /\ codec = "vp9" -> "vp9_vaapi"
      [] device = "vaapi" /\ codec = "av1" -> "av1_vaapi"
      [] device = "cuda" /\ codec = "h264" -> "h264_nvenc"
      [] device = "qsv" /\ codec = "h264" -> "h264_qsv"
      [] OTHER -> ""

SoftwareEncoder(codec) ==
    CASE codec = "h264" -> "libx264"
      [] codec = "vp9" -> "libvpx-vp9"
      [] codec = "av1" -> "libaom-av1"

\* C18: in burn mode, for every combination of use_hardware_accel, hw_device
\* and codec (h264, vp9, av1) the command selects exactly one video encoder:
\* the hardware encoder of a supported device/codec pair when hardware
\* acceleration is on, and otherwise the software encoder of the codec.
C18_OneVideoEncoder ==
    (/\ EncDone /\ enc.result.started
     /\ enc.a.burn_subtitles
     /\ enc.a.codec \in {"h264", "vp9", "av1"})
    => ValuesOf(enc.result.cmd, "-c:v") =
         <<IF enc.a.use_hardware_accel
              /\ HardwareEncoder(enc.a.hw_device, enc.a.codec) # ""
           THEN HardwareEncoder(enc.a.hw_device, enc.a.codec)
           ELSE SoftwareEncoder(enc.a.codec)>>

\* The stage that uploads the frames to the device after the subtitle filter
UploadStage(device) ==
    CASE device = "vaapi" -> ",hwupload"
      [] device = "cuda" -> ",hwupload_cuda"
      [] device = "qsv" -> ",hwupload=extra_hw_frames=64"

\* Burn mode with hardware acceleration on one of the devices vaapi, cuda, qsv
BurnOnDevice ==
    /\ EncDone /\ enc.result.started
    /\ enc.a.burn_subtitles /\ enc.a.use_hardware_accel
    /\ enc.a.hw_device \in {"vaapi", "cuda", "qsv"}

\* C24: burning with hardware acceleration on vaapi, cuda or qsv, whatever
\* render_method was passed: the command has no -hwaccel_output_format, has
\* -hwaccel <device>, and its -vf value is format=nv12, then the subtitle
\* filter, then the upload stage of the device.
C24_BurnRendersInSoftware ==
    BurnOnDevice =>
      /\ \A i \in 1..Len(enc.result.cmd) : enc.result.cmd[i] # "-hwaccel_output_format"
      /\ ValuesOf(enc.result.cmd, "-hwaccel") = <<enc.a.hw_device>>
      /\ ValuesOf(enc.result.cmd, "-vf")
           = <<"format=nv12," \o subtitle_filter(enc.a) \o UploadStage(enc.a.hw_device)>>

C24_Witness ==
    /\ BurnOnDevice
    /\ enc.a.hw_device = "cuda" /\ enc.a.render_method = "hw"
    /\ enc.a.subtitle_path = File("/v", "m-zh", ".ass") /\ enc.a.font_name = ""
    /\ ValuesOf(enc.result.cmd, "-vf") = <<"format=nv12,subtitles='/v/m-zh.ass',hwupload_cuda">>

StageOrder(stage) ==
    CASE stage = "extract" -> 1
      [] stage = "transcribe" -> 2
      [] stage = "translate" -> 3
      [] stage = "subtitles" -> 4
      [] stage = "encode" -> 5

\* C19: in every run the stages are invoked in the order extraction,
\* transcription, translation, subtitle generation, encoding, each at most
\* once (a failed stage is not invoked again), and a stage is invoked only
\* when every stage invoked before it has returned with its outcome.
C19_StagesInOrderOnce ==
    /\ \A i, j \in 1..Len(invoked) :
          i < j => StageOrder(invoked[i].stage) < StageOrder(invoked[j].stage)
    /\ \A i \in 1..Len(invoked) : invoked[i].ok \in BOOLEAN
    /\ pc \in {"extract", "transcribe", "translate", "subtitles", "encode"}
         => \A i \in 1..Len(invoked) :
               StageOrder(invoked[i].stage) < StageOrder(pc)

C19_Witness ==
    /\ pc = "done"
    /\ Len(invoked) = 5
    /\ invoked[1].stage = "extract"
    /\ invoked[3] = Stage("translate", FALSE)
    /\ invoked[5] = Stage("encode", FALSE)

\* The non-empty segment texts of the input, in segment order
NonEmptyTexts ==
    SelectSeq([i \in 1..Len(tr.transcript.segments) |-> tr.transcript.segments[i].text],
              LAMBDA t : t # <<>>)

\* C21: translate_text makes at most two remote requests: the first carries
\* exactly the full text, the second is made only when some segment has a
\* non-empty text and carries exactly the non-empty segment texts in segment
\* order; no empty text is in a payload, and both payloads name the
\* uppercased target language.
C21_AtMostTwoRequests ==
    TrDone =>
        LET requests == tr.result.requests
        IN  /\ Len(requests) <= 2
            /\ Len(requests) >= 1 => requests[1].text = <<tr.transcript.text>>
            /\ Len(requests) = 2 =>
                  /\ NonEmptyTexts # <<>>
                  /\ requests[2].text = NonEmptyTexts
            /\ \A i \in 1..Len(requests) :
                  /\ requests[i].target_lang = "ZH"
                  /\ \A k \in 1..Len(requests[i].text) : requests[i].text[k] # <<>>
            /\ (tr.result.ok /\ NonEmptyTexts # <<>>) => Len(requests) = 2

C21_Witness ==
    /\ TrDone /\ tr.result.ok
    /\ Len(tr.transcript.segments) = 3
    /\ tr.transcript.segments[2].text = <<>>
    /\ Len(tr.result.requests) = 2
    /\ tr.result.requests[2].text = <<<<"a">>, <<" ">>>>

\* A document made from the flat text, without segment timing
ChunkMode ==
    /\ SubDone /\ sub.result.ok
    /\ sub.transcript.segments = <<>>

\* The chunk cue i shows or, for an EN cue, accompanies
ChunkOf(ev, i) == IF ev[i].style = "EN" THEN ev[i + 1].text ELSE ev[i].text

\* The first cue starts at 0 and each cue lasts max(3000, len(chunk)*1000 div 15)
EstimatedTiming(ev) ==
    /\ ev # <<>> => ev[1].start = 0
    /\ \A i \in 1..Len(ev) :
          ev[i].end - ev[i].start = Max(3000, (Len(ChunkOf(ev, i)) * 1000) \div 15)

\* "Hello. How are you?" at 42 characters per line gives one cue from 0
HelloOneCue ==
    (/\ sub.transcript.text = HelloText
     /\ sub.max_chars_per_line = 42
     /\ sub.original_transcript = NoTranscript)
    => /\ Len(sub.result.events) = 1
       /\ sub.result.events[1].start = 0
       /\ sub.result.events[1].end >= 3000

\* C22: without segment timing the first cue starts at 0 ms, each cue lasts
\* max(3000, len(chunk)*1000 div 15) ms and each next cue starts exactly
\* 100 ms after the previous cue's end, so cues never overlap;
\* "Hello. How are you?" at 42 characters per line gives exactly one cue with
\* start 0 and end >= 3000.
C22_GapAfterEveryCue ==
    ChunkMode =>
        LET ev == sub.result.events
        IN  /\ EstimatedTiming(ev)
            /\ \A i \in 1..(Len(ev) - 1) : ev[i + 1].start = ev[i].end + 100
            /\ HelloOneCue

\* C22, amended: as above for the cues of different chunks; with a secondary
\* transcript the EN cue and the CN cue of one chunk share start and end,
\* and the cue after the pair starts 100 ms after its end.
C22_GapAfterEveryChunk ==
    ChunkMode =>
        LET ev == sub.result.events
        IN  /\ EstimatedTiming(ev)
            /\ \A i \in 1..(Len(ev) - 1) :
                  IF ev[i].style = "EN"
                  THEN /\ ev[i + 1].style = "CN"
                       /\ ev[i + 1].start = ev[i].start
                       /\ ev[i + 1].end = ev[i].end
                  ELSE ev[i + 1].start = ev[i].end + 100
            /\ ev # <<>> => ev[Len(ev)].style # "EN"
            /\ sub.original_transcript = NoTranscript
                  => \A i \in 1..Len(ev) : ev[i].style = "Default"
            /\ HelloOneCue

C22_Witness ==
    /\ ChunkMode
    /\ sub.original_transcript # NoTranscript
    /\ Len(sub.result.events) = 3
    /\ sub.result.events[1].style = "EN"
    /\ sub.result.events[2].end > 3000
    /\ sub.result.events[2].style = "CN"
    /\ sub.result.events[2].start = sub.result.events[1].start
    /\ sub.result.events[3].start = sub.result.events[2].end + 100
    /\ sub.result.events[3].style = "Default"

\* The stage ran and succeeded
RanOk(stage) == \E i \in 1..Len(invoked) : invoked[i] = Stage(stage, TRUE)

\* no_translate is false and the target language is not "en" in any case
TranslationRequested == ~opts.no_translate /\ opts.target_language \notin {"en", "EN"}

\* C27: once the transcription has succeeded and the run is past the
\* translation stage, that stage has been invoked if and only if no_translate
\* is false and the target language is not "en" in any letter case, and
\* without it no translation call was made; a secondary transcript reaches
\* the subtitle builder only if dual subtitles were requested and the
\* translation stage succeeded, and it is the transcript as transcribed.
C27_TranslationGate ==
    /\ (RanOk("transcribe") /\ pc # "translate")
         => (Ran("translate") <=> TranslationRequested)
    /\ ~TranslationRequested => (~Ran("translate") /\ trCall = NoCall)
    /\ (subsCall # NoCall /\ subsCall.secondary # NoTranscript)
         => /\ opts.dual_subtitles
            /\ RanOk("translate")
            /\ subsCall.secondary = transcribed

C27_Witness ==
    /\ pc = "done" /\ exitCode = 0
    /\ opts.dual_subtitles /\ opts.target_language = "zh" /\ ~opts.no_translate
    /\ RanOk("translate")
    /\ subsCall # NoCall
    /\ subsCall.secondary = transcribed
    /\ subsCall.primary # transcribed
    /\ Len(transcribed.segments) = 2

\* C25: whenever the encode stage is invoked, the subtitle path handed to
\* it is the path at which create_subtitles wrote the document (the
\* sanitized path it returned), for every output file name.
C25_EncodeGetsWrittenPath ==
    Ran("encode") =>
      /\ encCall.subtitle_path = subsCall.result.written
      /\ encCall.subtitle_path = subsCall.result.path

====
